---- MODULE Spec2Model ----
(***************************************************************************)
(* Model of the SillyTavern custom emoji picker extension.                 *)
(*                                                                         *)
(* Two variants of the extension exist in the repository: the current one  *)
(* (src/unnamed/part_000, from line 200 on) and an earlier one             *)
(* (src/src/index.js).  The variable `build` says which of them is loaded  *)
(* in the page; it never changes during a behaviour.                       *)
(*                                                                         *)
(* Every action is one run-to-completion handler of the event loop.  The   *)
(* handlers that await (panel add, import) touch the store, the picker and *)
(* the panel only after their last await, so their action is the segment   *)
(* after the await, with the outcome of the awaited operation as an input. *)
(***************************************************************************)
EXTENDS Integers, Sequences, FiniteSets, TLC

VARIABLES
    build,          \* "part_000" | "index": which source file is loaded
    slot,           \* localStorage item 'custom_emojis'
    storageFull,    \* localStorage.setItem throws (quota exceeded)
    picker,         \* the element bound to the module-scoped const `picker`
    windowPicker,   \* the property window.picker: <<>> (unset) or <<element>>
    popper,         \* the instance bound to the module-scoped const `popper`
    windowPopper,   \* the property window.popper: <<>> (unset) or <<instance>>
    managerShown,   \* manager.style.display = 'block'
    list,           \* the rows rendered in #customEmojiList
    textarea,       \* #send_textarea: value and selection
    out,            \* what the last handler returned and alerted
    page,           \* the host page: its anchors, how far the module's
                    \* evaluation got, and what it has put into the page
    pending,        \* the panel handlers suspended at an await, with what
                    \* each captured at its click
    serial          \* history: the saved mutations applied one after
                    \* another, in the order of their saves

vars == <<build, slot, storageFull, picker, windowPicker, popper, windowPopper,
          managerShown, list, textarea, out, page, pending, serial>>

-----------------------------------------------------------------------------
(* Bounds of the model *)

\* longest array of an import file
MaxImport == 2
\* picker instances are told apart up to this many rebuilds
MaxRebuilds == 2
\* longest content of the text field, in inserted pieces
MaxText == 3

-----------------------------------------------------------------------------
(* Input domains.  An id is a sequence of characters, so that the format   *)
(* test of the panel is computed on its characters.                        *)

ValidIds == {<<"a">>, <<"b">>}
BadIds == {<<"c", "!">>}
Ids == ValidIds \cup BadIds
EmptyId == <<>>

Names == {"A", "B"}
ImageUrl == "https://x/y.png"
DataUrl == "data:image/png;base64,AA"
KeywordInputs == {<<>>, <<"k">>}

CUSTOM_EMOJI_CATEGORY == "custom"

-----------------------------------------------------------------------------
(* localStorage and JSON *)

\* localStorage.getItem returns null when the key was never set
NoItem == [kind |-> "null", val |-> <<>>]

\* JSON.stringify of an array of emoji objects: the text of an array
JSONStringify(emojis) == [kind |-> "array", val |-> emojis]

\* JSON.parse of a stored text
JSONParse(text) == text.val

\* what else the slot can hold when it was written by someone else: the
\* empty string, and a text that JSON.parse refuses
EmptyItem == [kind |-> "empty", val |-> <<>>]
GarbageItem == [kind |-> "garbage", val |-> <<>>]

\* and texts that JSON.parse accepts and that are no array: null, a number,
\* an object
NullJsonItem == [kind |-> "jsonNull", val |-> <<>>]
NumberItem == [kind |-> "number", val |-> <<>>]
ObjectItem == [kind |-> "object", val |-> <<>>]
NonArrayItems == {NullJsonItem, NumberItem, ObjectItem}

\* whether loadCustomEmojis returns an array: `[]` for no item, the empty
\* string and a text that does not parse, else whatever JSON.parse gives.
\* On anything else the first use its caller makes of the value (.length of
\* null, .some, .findIndex, .filter, .map, .forEach, the spread) raises a
\* TypeError.
loadsArray(s) == s.kind \in {"null", "empty", "garbage", "array"}

\* a load whose catch block is missing, to compare C11 against
loadCustomEmojisNoCatch(b, s) ==
    IF s.kind \in {"null", "empty"}
    THEN [threw |-> FALSE, value |-> <<>>, alerts |-> <<>>, slot |-> s]
    ELSE IF s.kind = "garbage"
    THEN [threw |-> TRUE, value |-> <<>>, alerts |-> <<>>, slot |-> s]
    ELSE [threw |-> FALSE, value |-> JSONParse(s), alerts |-> <<>>, slot |-> s]

\* one call of loadCustomEmojis: whether it threw to its caller, the value
\* returned, the alerts of its catch block (index.js only logs) and the
\* slot afterwards
loadCustomEmojisCall(b, s) ==
    IF s.kind \in {"null", "empty"}
    THEN [threw |-> FALSE, value |-> <<>>, alerts |-> <<>>, slot |-> s]
    ELSE IF s.kind = "garbage"
    THEN [threw |-> FALSE, value |-> <<>>,
          alerts |-> IF b = "part_000"
                     THEN <<[text |-> "Failed to load custom emojis",
                             added |-> 0, updated |-> 0]>>
                     ELSE <<>>,
          slot |-> s]
    ELSE [threw |-> FALSE, value |-> JSONParse(s), alerts |-> <<>>, slot |-> s]

\* the value loadCustomEmojis returns (the same in both files)
loadCustomEmojis(s) == loadCustomEmojisCall("part_000", s).value

Msg(text) == [text |-> text, added |-> 0, updated |-> 0]

\* a save that empties the slot before it writes, so that a refused write
\* leaves no collection, to compare C12 against
saveCustomEmojisClearsFirst(b, s, full, emojis) ==
    IF full
    THEN [threw |-> FALSE, slot |-> NoItem,
          alerts |-> IF b = "part_000"
                     THEN <<Msg("Failed to save custom emojis")>> ELSE <<>>]
    ELSE [threw |-> FALSE, slot |-> JSONStringify(emojis), alerts |-> <<>>]

\* saveCustomEmojis: whether it threw to its caller, the slot afterwards and
\* the alerts of its catch block (the catch of index.js only logs).  A
\* setItem that throws leaves the item as it was.
saveCustomEmojis(b, s, full, emojis) ==
    IF full
    THEN [threw |-> FALSE, slot |-> s,
          alerts |-> IF b = "part_000"
                     THEN <<Msg("Failed to save custom emojis")>> ELSE <<>>]
    ELSE [threw |-> FALSE, slot |-> JSONStringify(emojis), alerts |-> <<>>]

-----------------------------------------------------------------------------
(* Store functions.  Each gives the slot afterwards, the value returned    *)
(* and the alerts raised.                                                   *)

\* a findIndex that never finds, to compare C8 against
findIndexNever(emojis, id) == 0

\* Array.prototype.findIndex by id: the first index, 0 for JavaScript's -1
findIndex(emojis, id) ==
    IF \E i \in 1..Len(emojis) : emojis[i].id = id
    THEN CHOOSE i \in 1..Len(emojis) :
            /\ emojis[i].id = id
            /\ \A j \in 1..(i - 1) : emojis[j].id # id
    ELSE 0

\* an upsert that drops the old record and puts the new one last, to
\* compare C1 against
upsertMovesToEnd(emojis, e) ==
    Append(SelectSeq(emojis, LAMBDA x : x.id # e.id), e)

\* the branch on existingIndex of addCustomEmoji
upsert(emojis, e) ==
    LET existingIndex == findIndex(emojis, e.id)
    IN IF existingIndex # 0
       THEN [emojis EXCEPT ![existingIndex] = e]
       ELSE Append(emojis, e)

newEmoji(id, name, url, keywords) ==
    [id |-> id, name |-> name, src |-> url,
     keywords |-> <<name>> \o keywords,
     skins |-> <<[src |-> url]>>]

\* the duplicate-name test of addCustomEmoji (part_000)
nameTaken(emojis, id, name) ==
    \E i \in 1..Len(emojis) : emojis[i].name = name /\ emojis[i].id # id

\* addCustomEmoji of src/unnamed/part_000
addCustomEmoji(s, full, id, name, url, keywords) ==
    LET customEmojis == loadCustomEmojis(s)
        saved == saveCustomEmojis("part_000", s, full,
                                  upsert(customEmojis, newEmoji(id, name, url, keywords)))
        loaded == loadCustomEmojisCall("part_000", s)
    IN IF ~loadsArray(s)
       THEN [threw |-> TRUE, ok |-> FALSE, slot |-> s, alerts |-> <<>>]
       ELSE IF nameTaken(customEmojis, id, name)
       THEN [threw |-> FALSE, ok |-> FALSE, slot |-> s,
             alerts |-> loaded.alerts \o
                        <<Msg("An emoji with this name already exists")>>]
       ELSE [threw |-> FALSE, ok |-> TRUE, slot |-> saved.slot,
             alerts |-> loaded.alerts \o saved.alerts]

\* addCustomEmoji of src/src/index.js
addCustomEmojiIndex(s, full, id, name, url, keywords) ==
    LET customEmojis == loadCustomEmojis(s)
        saved == saveCustomEmojis("index", s, full,
                                  upsert(customEmojis, newEmoji(id, name, url, keywords)))
    IN IF ~loadsArray(s)
       THEN [threw |-> TRUE, ok |-> FALSE, slot |-> s, alerts |-> <<>>]
       ELSE [threw |-> FALSE, ok |-> TRUE, slot |-> saved.slot,
             alerts |-> saved.alerts]

\* window.EmojiPickerExtension.addCustomEmoji of the loaded file
addCustomEmojiOf(b, s, full, id, name, url, keywords) ==
    IF b = "part_000"
    THEN addCustomEmoji(s, full, id, name, url, keywords)
    ELSE addCustomEmojiIndex(s, full, id, name, url, keywords)

\* a remove that keeps the other records in reverse order, to compare C13
\* against
removeCustomEmojiReversed(b, s, full, id) ==
    LET kept == SelectSeq(loadCustomEmojis(s), LAMBDA e : e.id # id)
        saved == saveCustomEmojis(b, s, full,
                                  [i \in 1..Len(kept) |-> kept[Len(kept) + 1 - i]])
    IN [threw |-> FALSE, ok |-> TRUE, slot |-> saved.slot, alerts |-> saved.alerts]

\* removeCustomEmoji (the same in both files but for the alert of save)
removeCustomEmoji(b, s, full, id) ==
    LET customEmojis == loadCustomEmojis(s)
        saved == saveCustomEmojis(b, s, full,
                                  SelectSeq(customEmojis, LAMBDA e : e.id # id))
    IN IF ~loadsArray(s)
       THEN [threw |-> TRUE, ok |-> FALSE, slot |-> s, alerts |-> <<>>]
       ELSE [threw |-> FALSE, ok |-> TRUE, slot |-> saved.slot,
             alerts |-> loadCustomEmojisCall(b, s).alerts \o saved.alerts]

-----------------------------------------------------------------------------
(* Import *)

\* The files the user can pick for an import: what file.type says, whether
\* file.text() resolves, and the text
JsonType == "application/json"

ImportShapes ==
    {[id |-> <<"a">>, name |-> "B", src |-> ImageUrl],
     [id |-> <<"b">>, name |-> "A", src |-> ImageUrl]}
    \cup {[id |-> EmptyId, name |-> "A", src |-> ImageUrl],
          [id |-> <<"b">>, name |-> "", src |-> ImageUrl],
          [id |-> <<"a">>, name |-> "A", src |-> ""]}

RECURSIVE ArraysUpTo(_, _)
ArraysUpTo(S, n) ==
    IF n = 0 THEN {<<>>}
    ELSE LET shorter == ArraysUpTo(S, n - 1)
         IN shorter \cup {Append(a, x) : a \in {b \in shorter : Len(b) = n - 1}, x \in S}

ImportTexts ==
    {[kind |-> "array", val |-> a] : a \in ArraysUpTo(ImportShapes, MaxImport)}
    \cup {[kind |-> "object", val |-> <<>>], [kind |-> "garbage", val |-> <<>>]}

ImportFiles ==
    {[type |-> JsonType, readable |-> TRUE, text |-> t] : t \in ImportTexts}
    \cup {[type |-> JsonType, readable |-> FALSE, text |-> [kind |-> "garbage", val |-> <<>>]],
          [type |-> "text/plain", readable |-> TRUE, text |-> [kind |-> "garbage", val |-> <<>>]]}

\* !emoji.id || !emoji.name || !emoji.src
missingRequired(emoji) ==
    emoji.id = EmptyId \/ emoji.name = "" \/ emoji.src = ""

\* a merge loop that counts a replaced record as a new one, to compare C3
\* against
RECURSIVE mergeFromCountsAll(_, _, _, _)
mergeFromCountsAll(mergedEmojis, importedEmojis, i, importCount) ==
    IF i > Len(importedEmojis)
    THEN [emojis |-> mergedEmojis, importCount |-> importCount]
    ELSE LET existingIndex == findIndex(mergedEmojis, importedEmojis[i].id)
         IN IF existingIndex # 0
            THEN mergeFromCountsAll([mergedEmojis EXCEPT ![existingIndex] = importedEmojis[i]],
                                    importedEmojis, i + 1, importCount + 1)
            ELSE mergeFromCountsAll(Append(mergedEmojis, importedEmojis[i]),
                                    importedEmojis, i + 1, importCount + 1)

\* the merge loop of importCustomEmojis, from element i on
RECURSIVE mergeFrom(_, _, _, _)
mergeFrom(mergedEmojis, importedEmojis, i, importCount) ==
    IF i > Len(importedEmojis)
    THEN [emojis |-> mergedEmojis, importCount |-> importCount]
    ELSE LET existingIndex == findIndex(mergedEmojis, importedEmojis[i].id)
         IN IF existingIndex # 0
            THEN mergeFrom([mergedEmojis EXCEPT ![existingIndex] = importedEmojis[i]],
                           importedEmojis, i + 1, importCount)
            ELSE mergeFrom(Append(mergedEmojis, importedEmojis[i]),
                           importedEmojis, i + 1, importCount + 1)

\* an import that validates while it merges and so saves the records that
\* precede an invalid one, to compare C4 against
importCustomEmojisPartial(s, full, file) ==
    IF ~file.readable \/ file.text.kind # "array"
    THEN [ok |-> FALSE, slot |-> s, alerts |-> <<Msg("Error importing emojis")>>]
    ELSE LET importedEmojis == JSONParse(file.text)
             bad == {i \in 1..Len(importedEmojis) : missingRequired(importedEmojis[i])}
             firstBad == IF bad = {} THEN Len(importedEmojis) + 1
                         ELSE CHOOSE i \in bad : \A j \in bad : i <= j
             m == mergeFrom(loadCustomEmojis(s),
                            SubSeq(importedEmojis, 1, firstBad - 1), 1, 0)
             saved == saveCustomEmojis("part_000", s, full, m.emojis)
         IN [ok |-> bad = {},
             slot |-> saved.slot,
             alerts |-> saved.alerts \o
                        <<[text |-> IF bad = {} THEN "Successfully imported"
                                    ELSE "Error importing emojis: missing required fields",
                           added |-> IF bad = {} THEN m.importCount ELSE 0,
                           updated |-> IF bad = {}
                                       THEN Len(importedEmojis) - m.importCount ELSE 0]>>]

\* importCustomEmojis without its refresh of picker and list, which the
\* handler below adds when ok
importCustomEmojis(s, full, file) ==
    IF ~file.readable
    THEN [ok |-> FALSE, slot |-> s, alerts |-> <<Msg("Error importing emojis: read")>>]
    ELSE IF file.text.kind = "garbage"
    THEN [ok |-> FALSE, slot |-> s, alerts |-> <<Msg("Error importing emojis: syntax")>>]
    ELSE IF file.text.kind # "array"
    THEN [ok |-> FALSE, slot |-> s,
          alerts |-> <<Msg("Error importing emojis: expected array of emojis")>>]
    ELSE LET importedEmojis == JSONParse(file.text)
         IN IF \E i \in 1..Len(importedEmojis) : missingRequired(importedEmojis[i])
            THEN [ok |-> FALSE, slot |-> s,
                  alerts |-> <<Msg("Error importing emojis: missing required fields")>>]
            ELSE IF ~loadsArray(s)
            THEN [ok |-> FALSE, slot |-> s,
                  alerts |-> <<Msg("Error importing emojis: not iterable")>>]
            ELSE LET m == mergeFrom(loadCustomEmojis(s), importedEmojis, 1, 0)
                     saved == saveCustomEmojis("part_000", s, full, m.emojis)
                 IN [ok |-> TRUE,
                     slot |-> saved.slot,
                     alerts |-> loadCustomEmojisCall("part_000", s).alerts
                                \o saved.alerts \o
                                <<[text |-> "Successfully imported",
                                   added |-> m.importCount,
                                   updated |-> Len(importedEmojis) - m.importCount]>>]

-----------------------------------------------------------------------------
(* The composed dataset *)

\* the data package of the widget: categories and the lookup table by id
BaseData ==
    [categories |-> <<[id |-> "people", name |-> "People",
                       emojis |-> << <<"a">>, <<"g">> >>]>>,
     emojis |-> [k \in {<<"a">>, <<"g">>} |->
                    [id |-> k, name |-> "Base", skins |-> <<[native |-> "G"]>>]]]

\* a compose that pushes the custom category onto the base list itself, to
\* compare C14 against
createCustomEmojiDataPushes(base, s) ==
    LET customEmojis == loadCustomEmojis(s)
        customIds == {customEmojis[i].id : i \in 1..Len(customEmojis)}
        lastOf(k) == CHOOSE i \in 1..Len(customEmojis) :
                        /\ customEmojis[i].id = k
                        /\ \A j \in (i + 1)..Len(customEmojis) : customEmojis[j].id # k
        pushed == [base EXCEPT !.categories =
                      Append(base.categories,
                             [id |-> CUSTOM_EMOJI_CATEGORY, name |-> "Custom",
                              emojis |-> [i \in 1..Len(customEmojis) |->
                                             customEmojis[i].id]])]
    IN IF Len(customEmojis) = 0
       THEN [threw |-> FALSE, value |-> base, data |-> base]
       ELSE [threw |-> FALSE,
             value |->
                [categories |-> pushed.categories,
                 emojis |->
                    [k \in (DOMAIN base.emojis) \cup customIds |->
                        IF k \in customIds THEN customEmojis[lastOf(k)]
                        ELSE base.emojis[k]]],
             data |-> pushed]

\* one call of createCustomEmojiData with the imported `data` being base:
\* whether it threw, the value returned, and `data` afterwards (the spreads
\* copy, nothing is assigned into data)
createCustomEmojiDataCall(base, s) ==
    LET customEmojis == loadCustomEmojis(s)
        customIds == {customEmojis[i].id : i \in 1..Len(customEmojis)}
        \* the reduce assigns in array order: the last record of an id stays
        lastOf(k) == CHOOSE i \in 1..Len(customEmojis) :
                        /\ customEmojis[i].id = k
                        /\ \A j \in (i + 1)..Len(customEmojis) : customEmojis[j].id # k
    IN IF ~loadsArray(s)
       THEN [threw |-> TRUE, value |-> base, data |-> base]
       ELSE IF Len(customEmojis) = 0
       THEN [threw |-> FALSE, value |-> base, data |-> base]
       ELSE [threw |-> FALSE,
             value |->
                [categories |->
                    Append(base.categories,
                           [id |-> CUSTOM_EMOJI_CATEGORY, name |-> "Custom",
                            emojis |-> [i \in 1..Len(customEmojis) |->
                                           customEmojis[i].id]]),
                 emojis |->
                    [k \in (DOMAIN base.emojis) \cup customIds |->
                        IF k \in customIds THEN customEmojis[lastOf(k)]
                        ELSE base.emojis[k]]],
             data |-> base]

\* the dataset createCustomEmojiData returns
createCustomEmojiData(s) == createCustomEmojiDataCall(BaseData, s).value

-----------------------------------------------------------------------------
(* The picker, its positioner and the panel list *)

Min(a, b) == IF a < b THEN a ELSE b

\* the references the code reads and writes, as one value
UI == [picker |-> picker, windowPicker |-> windowPicker,
       popper |-> popper, windowPopper |-> windowPopper]

SetUI(u) ==
    /\ picker' = u.picker
    /\ windowPicker' = u.windowPicker
    /\ popper' = u.popper
    /\ windowPopper' = u.windowPopper

\* identity of the instance the next rebuild constructs
nextInst(w) == IF w = <<>> THEN 1 ELSE Min(w[1].inst + 1, MaxRebuilds)

\* refreshEmojiPicker: inside the function the identifiers `picker` and
\* `popper` are the module-scoped constants; the new instances are stored in
\* properties of window.
refreshEmojiPicker(u, s) ==
    [picker |-> [u.picker EXCEPT !.hidden = TRUE, !.inDom = TRUE],
     windowPicker |-> <<[inst |-> nextInst(u.windowPicker),
                         data |-> createCustomEmojiData(s),
                         hidden |-> FALSE, inDom |-> FALSE]>>,
     popper |-> [u.popper EXCEPT !.destroyed = TRUE],
     windowPopper |-> <<[inst |-> nextInst(u.windowPopper), destroyed |-> FALSE,
                         reference |-> "addEmojiButton",
                         popperEl |-> u.picker.inst]>>]

\* a body listener that toggles instead of hiding, to compare C7 against
bodyClickToggles(u) == [u EXCEPT !.picker.hidden = ~u.picker.hidden]

\* the click listener of document.body, for a target outside the picker and
\* outside the trigger button
bodyClick(u) ==
    IF ~u.picker.hidden
    THEN [u EXCEPT !.picker.hidden = TRUE]
    ELSE u

\* the rows updateCustomEmojiList renders; it empties the container before
\* it walks the collection
updateCustomEmojiList(s) ==
    LET customEmojis == loadCustomEmojis(s)
    IN [i \in 1..Len(customEmojis) |->
           [id |-> customEmojis[i].id, name |-> customEmojis[i].name,
            src |-> customEmojis[i].src]]

\* what a handler leaves behind for the user or the caller: the value its
\* store function returned, the alerts shown, and for an add which branch on
\* existingIndex it took
Out(op, ret, alerts, branch) ==
    [op |-> op, ret |-> ret, alerts |-> alerts, branch |-> branch]

Ret(ok) == IF ok THEN "true" ELSE "false"

addBranch(s, id) ==
    IF findIndex(loadCustomEmojis(s), id) # 0 THEN "replaced" ELSE "appended"

\* The evaluation of the module, top to bottom, on a page that has or lacks
\* the element #send_textarea and the toolbar container: how it ends and
\* what it has put into the page by then.  The check of the textarea throws
\* first; createCustomEmojiManager appends the panel to document.body and
\* registers the listeners of its controls, and the manage button gets its
\* listener, before the first use of the container; the picker, the body
\* listeners and window.EmojiPickerExtension come after it.
initialize(hasTextarea, hasContainer) ==
    IF ~hasTextarea
    THEN [phase |-> "failed", installed |-> {}]
    ELSE IF ~hasContainer
    THEN [phase |-> "failed",
          installed |-> {"manager", "managerListeners", "manageButtonListener"}]
    ELSE [phase |-> "ok",
          installed |-> {"manager", "managerListeners", "manageButtonListener",
                         "manageButton", "addEmojiButton", "containerListener",
                         "picker", "bodyListeners", "namespace"}]

Init ==
    /\ build \in {"part_000", "index"}
    /\ slot = NoItem
    /\ storageFull = FALSE
    /\ picker = [inst |-> 0, data |-> createCustomEmojiData(NoItem),
                 hidden |-> TRUE, inDom |-> TRUE]
    /\ windowPicker = <<>>
    /\ popper = [inst |-> 0, destroyed |-> FALSE,
                 reference |-> "addEmojiButton", popperEl |-> 0]
    /\ windowPopper = <<>>
    /\ managerShown = FALSE
    /\ list = <<>>
    /\ textarea = [value |-> <<>>, selectionStart |-> 0, selectionEnd |-> 0]
    /\ out = Out("init", "none", <<>>, "")
    /\ page = [textarea |-> TRUE, container |-> TRUE,
               phase |-> initialize(TRUE, TRUE).phase,
               installed |-> initialize(TRUE, TRUE).installed]
    /\ pending = [adding |-> {}, importing |-> {}]
    /\ serial = slot

-----------------------------------------------------------------------------
(* The add form of the manager panel *)

\* the characters /^[a-zA-Z0-9_-]+$/ admits, among those the ids are made of
WordChars == {"a", "b", "c", "0", "_", "-"}

idFormatOk(id) == Len(id) > 0 /\ \A i \in 1..Len(id) : id[i] \in WordChars

maxSize == 2 * 1024 * 1024
allowedTypes == {"image/png", "image/jpeg", "image/jpg", "image/gif", "image/webp"}

NoFile == [present |-> FALSE, size |-> 0, type |-> "", readable |-> FALSE]
GoodFile == [present |-> TRUE, size |-> maxSize, type |-> "image/png", readable |-> TRUE]
Files == {NoFile, GoodFile,
          [GoodFile EXCEPT !.size = maxSize + 1],
          [GoodFile EXCEPT !.type = "image/svg+xml"],
          [GoodFile EXCEPT !.readable = FALSE]}

\* validateImageFile: the alerts it raises; none when the file is accepted
validateImageFile(file) ==
    IF file.size > maxSize THEN <<Msg("File size must be less than 2MB")>>
    ELSE IF file.type \notin allowedTypes
    THEN <<Msg("Only PNG, JPEG, GIF, and WebP images are allowed")>>
    ELSE <<>>

\* what fetch(url, HEAD) gives: a network error, or a response
NetError == [thrown |-> TRUE, ok |-> FALSE, contentType |-> "null"]
Responses == {[thrown |-> FALSE, ok |-> o, contentType |-> c] :
                 o \in BOOLEAN, c \in {"image/png", "text/html", "null"}}
FetchOutcomes == {NetError} \cup Responses

\* the urls that match /^https?:\/\/[^\s$.?#].[^\s]*$/
HttpUrls == {ImageUrl}
UrlInputs == {"", "ftp//x", ImageUrl}

\* validateImageUrl: [valid, alerts]
validateImageUrl(url, fetched) ==
    IF url \notin HttpUrls
    THEN [valid |-> FALSE, alerts |-> <<Msg("Please enter a valid HTTP/HTTPS URL")>>]
    ELSE IF fetched.thrown \/ (fetched.ok /\ fetched.contentType = "null")
    THEN [valid |-> FALSE, alerts |-> <<Msg("Invalid or unreachable image URL")>>]
    ELSE [valid |-> fetched.ok /\ fetched.contentType = "image/png", alerts |-> <<>>]

FormIds == Ids \cup {EmptyId}
FormNames == Names \cup {""}

\* the add form at the click: the trimmed fields, the chosen file, and what
\* the awaited read or fetch will give
UploadForm(id, name, keywords, file) ==
    [id |-> id, name |-> name, keywords |-> keywords, imageSource |-> "upload",
     file |-> file, url |-> "", fetched |-> NetError]

UrlForm(id, name, keywords, url, fetched) ==
    [id |-> id, name |-> name, keywords |-> keywords, imageSource |-> "url",
     file |-> NoFile, url |-> url, fetched |-> fetched]

ImageResponse == [thrown |-> FALSE, ok |-> TRUE, contentType |-> "image/png"]

Forms ==
    {UploadForm(i, n, k, f) :
        i \in FormIds, n \in FormNames, k \in KeywordInputs, f \in Files}
    \cup
    {UrlForm(i, n, k, u, r) :
        i \in FormIds, n \in FormNames, k \in KeywordInputs,
        u \in UrlInputs, r \in FetchOutcomes}

\* the add click handler of part_000 up to its call of addCustomEmoji:
\* [pass, url, alerts]
addFormChecks(form) ==
    IF form.id = EmptyId \/ form.name = ""
    THEN [pass |-> FALSE, url |-> "", alerts |-> <<Msg("Please fill in emoji ID and name")>>]
    ELSE IF ~idFormatOk(form.id)
    THEN [pass |-> FALSE, url |-> "",
          alerts |-> <<Msg("Emoji ID can only contain letters, numbers, underscores, and hyphens")>>]
    ELSE IF form.imageSource = "upload"
    THEN IF ~form.file.present
         THEN [pass |-> FALSE, url |-> "", alerts |-> <<Msg("Please select a file to upload")>>]
         ELSE IF validateImageFile(form.file) # <<>>
         THEN [pass |-> FALSE, url |-> "", alerts |-> validateImageFile(form.file)]
         ELSE IF ~form.file.readable
         THEN [pass |-> FALSE, url |-> "", alerts |-> <<Msg("Error processing the selected file")>>]
         ELSE [pass |-> TRUE, url |-> DataUrl, alerts |-> <<>>]
    ELSE IF form.url = ""
         THEN [pass |-> FALSE, url |-> "", alerts |-> <<Msg("Please enter an image URL")>>]
         ELSE LET v == validateImageUrl(form.url, form.fetched)
              IN [pass |-> v.valid, url |-> form.url, alerts |-> v.alerts]

\* the add click handler of index.js up to its call of addCustomEmoji
addFormChecksIndex(form) ==
    IF form.id = EmptyId \/ form.name = "" \/ form.url = ""
    THEN [pass |-> FALSE, url |-> "", alerts |-> <<Msg("Please fill in all required fields")>>]
    ELSE [pass |-> TRUE, url |-> form.url, alerts |-> <<>>]

-----------------------------------------------------------------------------
(* Handlers of the manager panel.  A click inside the panel bubbles to     *)
(* document.body after the button's own listener ran (for an async         *)
(* listener: after its part before the first await).                       *)

\* click on #manageCustomEmojis (it stops the propagation)
ManageClick ==
    /\ managerShown' = TRUE
    /\ list' = updateCustomEmojiList(slot)
    /\ out' = Out("manage", IF loadsArray(slot) THEN "none" ELSE "raised", <<>>, "")
    /\ UNCHANGED <<pending, serial, page, build, slot, storageFull, picker, windowPicker, popper,
                   windowPopper, textarea>>

\* click on #closeManager
CloseManager ==
    /\ managerShown
    /\ managerShown' = FALSE
    /\ SetUI(bodyClick(UI))
    /\ out' = Out("close", "none", <<>>, "")
    /\ UNCHANGED <<pending, serial, page, build, slot, storageFull, list, textarea>>

\* click on #addEmoji, src/unnamed/part_000
PanelAdd(form) ==
    /\ build = "part_000"
    /\ managerShown
    /\ LET c == addFormChecks(form)
           r == addCustomEmoji(slot, storageFull, form.id, form.name, c.url, form.keywords)
       IN IF ~c.pass
          THEN /\ slot' = slot
               /\ SetUI(bodyClick(UI))
               /\ list' = list
               /\ out' = Out("panelAdd", "none", c.alerts, "")
          ELSE IF r.ok
          THEN /\ slot' = r.slot
               /\ SetUI(refreshEmojiPicker(bodyClick(UI), r.slot))
               /\ list' = updateCustomEmojiList(r.slot)
               /\ out' = Out("panelAdd", "true",
                             r.alerts \o <<Msg("added successfully")>>,
                             addBranch(slot, form.id))
          ELSE /\ slot' = r.slot
               /\ SetUI(bodyClick(UI))
               /\ list' = list
               /\ out' = Out("panelAdd", "false",
                             r.alerts \o <<Msg("Failed to add emoji")>>, "")
    /\ serial' = IF addFormChecks(form).pass
                 THEN addCustomEmoji(serial, storageFull, form.id, form.name,
                                     addFormChecks(form).url, form.keywords).slot
                 ELSE serial
    /\ UNCHANGED <<pending, page, build, storageFull, managerShown, textarea>>

\* click on #addEmoji, src/src/index.js
PanelAddIndex(form) ==
    /\ build = "index"
    /\ managerShown
    /\ LET c == addFormChecksIndex(form)
           r == addCustomEmojiIndex(slot, storageFull, form.id, form.name, c.url,
                                    form.keywords)
       IN IF ~c.pass
          THEN /\ slot' = slot
               /\ SetUI(bodyClick(UI))
               /\ list' = list
               /\ out' = Out("panelAdd", "none", c.alerts, "")
          ELSE /\ slot' = r.slot
               /\ SetUI(bodyClick(refreshEmojiPicker(UI, r.slot)))
               /\ list' = updateCustomEmojiList(r.slot)
               /\ out' = Out("panelAdd", "true", r.alerts, addBranch(slot, form.id))
    /\ serial' = IF addFormChecksIndex(form).pass
                 THEN addCustomEmojiIndex(serial, storageFull, form.id, form.name,
                                          addFormChecksIndex(form).url,
                                          form.keywords).slot
                 ELSE serial
    /\ UNCHANGED <<pending, page, build, storageFull, managerShown, textarea>>

\* click on the remove button of a rendered row
PanelRemove(id, confirmed) ==
    /\ managerShown
    /\ \E i \in 1..Len(list) : list[i].id = id
    /\ LET r == removeCustomEmoji(build, slot, storageFull, id)
       IN IF confirmed
          THEN /\ slot' = r.slot
               /\ SetUI(bodyClick(refreshEmojiPicker(UI, r.slot)))
               /\ list' = updateCustomEmojiList(r.slot)
               /\ out' = Out("panelRemove", "true",
                             r.alerts \o (IF build = "part_000"
                                          THEN <<Msg("removed successfully")>>
                                          ELSE <<>>), "")
          ELSE /\ slot' = slot
               /\ SetUI(bodyClick(UI))
               /\ list' = list
               /\ out' = Out("panelRemove", "none", <<>>, "")
    /\ serial' = IF confirmed
                 THEN removeCustomEmoji(build, serial, storageFull, id).slot
                 ELSE serial
    /\ UNCHANGED <<pending, page, build, storageFull, managerShown, textarea>>

\* click on #importEmojis, then the change event of #importFile
PanelImport(file) ==
    /\ build = "part_000"
    /\ managerShown
    /\ IF file.type # JsonType
       THEN /\ slot' = slot
            /\ SetUI(bodyClick(UI))
            /\ list' = list
            /\ out' = Out("panelImport", "none",
                          <<Msg("Please select a valid JSON file")>>, "")
       ELSE LET r == importCustomEmojis(slot, storageFull, file)
            IN /\ slot' = r.slot
               /\ IF r.ok
                  THEN /\ SetUI(refreshEmojiPicker(bodyClick(UI), r.slot))
                       /\ list' = updateCustomEmojiList(r.slot)
                  ELSE /\ SetUI(bodyClick(UI))
                       /\ list' = list
               /\ out' = Out("panelImport", Ret(r.ok), r.alerts, "")
    /\ serial' = IF file.type = JsonType
                 THEN importCustomEmojis(serial, storageFull, file).slot
                 ELSE serial
    /\ UNCHANGED <<pending, page, build, storageFull, managerShown, textarea>>

\* click on #clearAllEmojis
PanelClearAll(confirmed) ==
    /\ build = "part_000"
    /\ managerShown
    /\ LET saved == saveCustomEmojis(build, slot, storageFull, <<>>)
       IN IF confirmed
          THEN /\ slot' = saved.slot
               /\ SetUI(bodyClick(refreshEmojiPicker(UI, saved.slot)))
               /\ list' = updateCustomEmojiList(saved.slot)
               /\ out' = Out("panelClearAll", "none",
                             saved.alerts \o
                             <<Msg("All custom emojis have been deleted")>>, "")
          ELSE /\ slot' = slot
               /\ SetUI(bodyClick(UI))
               /\ list' = list
               /\ out' = Out("panelClearAll", "none", <<>>, "")
    /\ serial' = IF confirmed
                 THEN saveCustomEmojis(build, serial, storageFull, <<>>).slot
                 ELSE serial
    /\ UNCHANGED <<pending, page, build, storageFull, managerShown, textarea>>

-----------------------------------------------------------------------------
(* The two handlers of the panel that await.  An async listener runs up to *)
(* its first await inside the click, and its continuation runs later as a  *)
(* task of its own, after any number of other handlers.  The continuation  *)
(* sees the locals the handler read at the click; `at` records what the    *)
(* slot held at that moment.  A form or a file is submitted again only     *)
(* after the handler of its last submission ended.                         *)

\* the add click reaches `await fileToDataURL(file)` or
\* `await validateImageUrl(url)`
addSuspends(form) ==
    /\ form.id # EmptyId /\ form.name # ""
    /\ idFormatOk(form.id)
    /\ IF form.imageSource = "upload"
       THEN form.file.present /\ validateImageFile(form.file) = <<>>
       ELSE form.url # ""

\* validateImageUrl alerts a malformed URL before it awaits anything
alertsAtClick(form) ==
    IF form.imageSource = "url" /\ form.url \notin HttpUrls
    THEN addFormChecks(form).alerts
    ELSE <<>>

\* the add handler after its await, on a continuation that uses the
\* collection the slot held at the click; to compare C20 against
addClickResumesStale(t, s, full) ==
    addCustomEmoji(t.at, full, t.form.id, t.form.name, addFormChecks(t.form).url,
                   t.form.keywords)

\* the add handler after its await: addCustomEmoji loads the slot then
addClickResumes(t, s, full) ==
    addCustomEmoji(s, full, t.form.id, t.form.name, addFormChecks(t.form).url,
                   t.form.keywords)

\* importCustomEmojis after `await file.text()`
importResumes(t, s, full) == importCustomEmojis(s, full, t.file)

\* click on #addEmoji, up to the await
AddStarts(form) ==
    /\ build = "part_000"
    /\ managerShown
    /\ addSuspends(form)
    /\ \A t \in pending.adding : t.form # form
    /\ pending' = [pending EXCEPT
                      !.adding = @ \cup {[form |-> form, at |-> slot]}]
    /\ SetUI(bodyClick(UI))
    /\ out' = Out("panelAddStarts", "none", alertsAtClick(form), "")
    /\ UNCHANGED <<serial, page, build, slot, storageFull, managerShown, list,
                   textarea>>

\* the awaited read or fetch settles and the add handler runs to its end
AddCompletes(t) ==
    /\ t \in pending.adding
    /\ LET c == addFormChecks(t.form)
           r == addClickResumes(t, slot, storageFull)
       IN /\ pending' = [pending EXCEPT !.adding = @ \ {t}]
          /\ IF ~c.pass
             THEN /\ slot' = slot
                  /\ serial' = serial
                  /\ SetUI(UI)
                  /\ list' = list
                  /\ out' = Out("panelAdd", "none",
                                IF alertsAtClick(t.form) = <<>> THEN c.alerts ELSE <<>>,
                                "")
             ELSE IF r.ok
             THEN /\ slot' = r.slot
                  /\ serial' = addCustomEmoji(serial, storageFull, t.form.id,
                                              t.form.name, c.url, t.form.keywords).slot
                  /\ SetUI(refreshEmojiPicker(UI, r.slot))
                  /\ list' = updateCustomEmojiList(r.slot)
                  /\ out' = Out("panelAdd", "true",
                                r.alerts \o <<Msg("added successfully")>>,
                                addBranch(slot, t.form.id))
             ELSE /\ slot' = r.slot
                  /\ serial' = addCustomEmoji(serial, storageFull, t.form.id,
                                              t.form.name, c.url, t.form.keywords).slot
                  /\ SetUI(UI)
                  /\ list' = list
                  /\ out' = Out("panelAdd", "false",
                                r.alerts \o <<Msg("Failed to add emoji")>>, "")
    /\ UNCHANGED <<page, build, storageFull, managerShown, textarea>>

\* click on #importEmojis and the change event of #importFile, up to
\* `await file.text()`
ImportStarts(file) ==
    /\ build = "part_000"
    /\ managerShown
    /\ file.type = JsonType
    /\ \A t \in pending.importing : t.file # file
    /\ pending' = [pending EXCEPT
                      !.importing = @ \cup {[file |-> file, at |-> slot]}]
    /\ SetUI(bodyClick(UI))
    /\ out' = Out("panelImportStarts", "none", <<>>, "")
    /\ UNCHANGED <<serial, page, build, slot, storageFull, managerShown, list,
                   textarea>>

\* the file is read and importCustomEmojis runs to its end
ImportCompletes(t) ==
    /\ t \in pending.importing
    /\ LET r == importResumes(t, slot, storageFull)
       IN /\ pending' = [pending EXCEPT !.importing = @ \ {t}]
          /\ slot' = r.slot
          /\ serial' = importCustomEmojis(serial, storageFull, t.file).slot
          /\ IF r.ok
             THEN /\ SetUI(refreshEmojiPicker(UI, r.slot))
                  /\ list' = updateCustomEmojiList(r.slot)
             ELSE /\ SetUI(UI)
                  /\ list' = list
          /\ out' = Out("panelImport", Ret(r.ok), r.alerts, "")
    /\ UNCHANGED <<page, build, storageFull, managerShown, textarea>>

-----------------------------------------------------------------------------
(* window.EmojiPickerExtension *)

GlobalAdd(id, name, url, keywords) ==
    /\ LET r == addCustomEmojiOf(build, slot, storageFull, id, name, url, keywords)
       IN /\ slot' = r.slot
          /\ out' = Out("globalAdd", IF r.threw THEN "raised" ELSE Ret(r.ok),
                        r.alerts, IF r.ok THEN addBranch(slot, id) ELSE "")
    /\ serial' = addCustomEmojiOf(build, serial, storageFull, id, name, url,
                                  keywords).slot
    /\ UNCHANGED <<pending, page, build, storageFull, picker, windowPicker, popper, windowPopper,
                   managerShown, list, textarea>>

GlobalRemove(id) ==
    /\ LET r == removeCustomEmoji(build, slot, storageFull, id)
       IN /\ slot' = r.slot
          /\ out' = Out("globalRemove", IF r.threw THEN "raised" ELSE Ret(r.ok),
                        r.alerts, "")
    /\ serial' = removeCustomEmoji(build, serial, storageFull, id).slot
    /\ UNCHANGED <<pending, page, build, storageFull, picker, windowPicker, popper, windowPopper,
                   managerShown, list, textarea>>

\* window.EmojiPickerExtension.loadCustomEmojis
GlobalList ==
    /\ LET r == loadCustomEmojisCall(build, slot)
       IN /\ slot' = r.slot
          /\ out' = Out("globalList",
                        IF r.threw THEN "raised"
                        ELSE IF loadsArray(slot) THEN "array" ELSE "notArray",
                        r.alerts, "")
    /\ serial' = loadCustomEmojisCall(build, serial).slot
    /\ UNCHANGED <<pending, page, build, storageFull, picker, windowPicker, popper, windowPopper,
                   managerShown, list, textarea>>

\* the key custom_emojis is removed or written by someone else in the page
\* (the host application, another script, the user): localStorage is shared
SlotSet(item) ==
    /\ slot # item
    /\ slot' = item
    /\ serial' = item
    /\ UNCHANGED <<pending, page, build, storageFull, picker, windowPicker, popper, windowPopper,
                   managerShown, list, textarea, out>>

-----------------------------------------------------------------------------
(* The picker's own events *)

\* the toggle of the toolbar container's click listener
triggerClick(u) == [u EXCEPT !.picker.hidden = ~u.picker.hidden]

\* click on #addEmojiButton: the listener of the toolbar container toggles;
\* the listener of document.body then sees a target inside the button
TriggerClick ==
    /\ SetUI(triggerClick(UI))
    /\ out' = Out("trigger", "none", <<>>, "")
    /\ UNCHANGED <<pending, serial, page, build, slot, storageFull, managerShown, list, textarea>>

\* click anywhere else in the page, outside the picker and the two buttons
OutsideClick ==
    /\ SetUI(bodyClick(UI))
    /\ out' = Out("outside", "none", <<>>, "")
    /\ UNCHANGED <<pending, serial, page, build, slot, storageFull, managerShown, list, textarea>>

\* the keyup listener of document.body, for the Escape key
escapeKeyup(u) ==
    IF ~u.picker.hidden
    THEN [u EXCEPT !.picker.hidden = TRUE]
    ELSE u

EscapeKeyup ==
    /\ SetUI(escapeKeyup(UI))
    /\ out' = Out("escape", "none", <<>>, "")
    /\ UNCHANGED <<pending, serial, page, build, slot, storageFull, managerShown, list, textarea>>

\* the descriptor the widget hands to onEmojiSelect for an entry of its data:
\* the id and the native glyph or image source of the entry's skin
descriptor(e) ==
    [id |-> e.id,
     native |-> IF "native" \in DOMAIN e.skins[1] THEN e.skins[1].native ELSE "",
     src |-> IF "src" \in DOMAIN e.skins[1] THEN e.skins[1].src ELSE ""]

\* the entries of a dataset the widget can render and offer
selectable(data) ==
    {descriptor(data.emojis[k]) :
        k \in {j \in DOMAIN data.emojis : "skins" \in DOMAIN data.emojis[j]}}

\* an insertEmoji that writes the image reference whenever there is a src,
\* to compare C15 against
emojiTextSrcFirst(inputEmoji) ==
    IF inputEmoji.src # ""
    THEN <<"![">> \o inputEmoji.id \o <<"](", inputEmoji.src, ")">>
    ELSE <<inputEmoji.native>>

\* the text insertEmoji inserts, as a sequence of pieces
emojiText(inputEmoji) ==
    IF inputEmoji.src # "" /\ inputEmoji.native = ""
    THEN <<"![">> \o inputEmoji.id \o <<"](", inputEmoji.src, ")">>
    ELSE <<inputEmoji.native>>

\* a typeInTextarea that inserts at the selection start and keeps the
\* selected text, to compare C16 against
typeInTextareaKeepsSelection(newText, el) ==
    IF el.selectionStart = -1 \/ el.selectionEnd = -1
    THEN [el EXCEPT !.value = el.value \o newText]
    ELSE [value |-> SubSeq(el.value, 1, el.selectionStart) \o newText
                      \o SubSeq(el.value, el.selectionStart + 1, Len(el.value)),
          selectionStart |-> el.selectionStart + Len(newText),
          selectionEnd |-> el.selectionStart + Len(newText)]

\* typeInTextarea.  selectionStart and selectionEnd are offsets into the
\* value, or -1 for the null of an element that has no selection; then the
\* text is appended.  Otherwise setRangeText(newText, start, end, 'end')
\* replaces the range and collapses the selection after the new text.
typeInTextarea(newText, el) ==
    IF el.selectionStart = -1 \/ el.selectionEnd = -1
    THEN [el EXCEPT !.value = el.value \o newText]
    ELSE [value |-> SubSeq(el.value, 1, el.selectionStart) \o newText
                      \o SubSeq(el.value, el.selectionEnd + 1, Len(el.value)),
          selectionStart |-> el.selectionStart + Len(newText),
          selectionEnd |-> el.selectionStart + Len(newText)]

\* insertEmoji, the onEmojiSelect callback: the text field and the picker
\* afterwards
insertEmoji(u, el, inputEmoji) ==
    [textarea |-> typeInTextarea(emojiText(inputEmoji), el),
     ui |-> [u EXCEPT !.picker.hidden = TRUE]]

\* a selection in the displayed picker
EmojiSelect(inputEmoji) ==
    /\ picker.inDom /\ ~picker.hidden
    /\ Len(textarea.value) < MaxText
    /\ LET r == insertEmoji(UI, textarea, inputEmoji)
       IN /\ textarea' = r.textarea
          /\ SetUI(r.ui)
    /\ out' = Out("select", "none", <<>>, "")
    /\ UNCHANGED <<pending, serial, page, build, slot, storageFull, managerShown, list>>

\* the user moves the caret or selects a range in the text field
UserSelects(start, end) ==
    /\ start <= end /\ end <= Len(textarea.value)
    /\ textarea' = [textarea EXCEPT !.selectionStart = start, !.selectionEnd = end]
    /\ out' = Out("userSelects", "none", <<>>, "")
    /\ UNCHANGED <<pending, serial, page, build, slot, storageFull, picker, windowPicker, popper,
                   windowPopper, managerShown, list>>

\* the browser's storage reaches or leaves its quota
StorageFills ==
    /\ storageFull' = ~storageFull
    /\ UNCHANGED <<pending, serial, page, build, slot, picker, windowPicker, popper, windowPopper,
                   managerShown, list, textarea, out>>

-----------------------------------------------------------------------------
(* Specifications.  Spec is the whole program.  The others are the program *)
(* under a narrower use, each a set of behaviours of Spec: SpecPanel is a  *)
(* user working in the manager panel, SpecApi adds a script calling        *)
(* window.EmojiPickerExtension (fewer forms and files, so that the stale   *)
(* picker data and panel list it leaves stay enumerable), SpecPicker is a  *)
(* user of the picker who also edits the store.  In the three of them the  *)
(* browser accepts every write to localStorage.                            *)

\* forms filled in the panel: every id and name with a good file or a good
\* url, and one form for each way the image source is refused
PanelForms ==
    {UploadForm(i, n, <<"k">>, GoodFile) : i \in FormIds, n \in FormNames}
    \cup {UrlForm(i, n, <<"k">>, ImageUrl, ImageResponse) : i \in FormIds, n \in FormNames}
    \cup {UploadForm(<<"a">>, "A", <<>>, f) : f \in Files \ {GoodFile}}
    \cup {UrlForm(<<"a">>, "A", <<>>, u, r) :
            u \in UrlInputs, r \in FetchOutcomes \ {ImageResponse}}

\* the same for a session with scripted calls
ApiForms ==
    {UrlForm(<<"a">>, "B", <<>>, ImageUrl, ImageResponse),
     UrlForm(<<"c", "!">>, "A", <<>>, ImageUrl, ImageResponse)}

ApiShapes ==
    {[id |-> <<"c", "!">>, name |-> "A", src |-> ImageUrl],
     [id |-> <<"a">>, name |-> "A", src |-> ""]}

ApiFiles ==
    {[type |-> JsonType, readable |-> TRUE, text |-> [kind |-> "array", val |-> a]] :
        a \in ArraysUpTo(ApiShapes, MaxImport)}
    \cup {[type |-> JsonType, readable |-> TRUE, text |-> [kind |-> "object", val |-> <<>>]]}

ApiIds == {<<"a">>, <<"c", "!">>}

\* the (id, name) pairs a script passes to the exposed add
ApiAdds == {<<<<"a">>, "A">>, <<<<"c", "!">>, "B">>}

NextPanel ==
    \/ ManageClick
    \/ CloseManager
    \/ \E form \in PanelForms : PanelAdd(form)
    \/ \E form \in PanelForms : PanelAddIndex(form)
    \/ \E id \in Ids, confirmed \in BOOLEAN : PanelRemove(id, confirmed)
    \/ \E file \in ImportFiles : PanelImport(file)
    \/ \E confirmed \in BOOLEAN : PanelClearAll(confirmed)

SpecPanel == Init /\ [][NextPanel]_vars

NextApi ==
    \/ ManageClick
    \/ CloseManager
    \/ \E form \in ApiForms : PanelAdd(form)
    \/ \E form \in ApiForms : PanelAddIndex(form)
    \/ \E id \in Ids, confirmed \in BOOLEAN : PanelRemove(id, confirmed)
    \/ \E file \in ApiFiles : PanelImport(file)
    \/ \E confirmed \in BOOLEAN : PanelClearAll(confirmed)
    \/ \E a \in ApiAdds : GlobalAdd(a[1], a[2], ImageUrl, <<>>)
    \/ \E id \in ApiIds : GlobalRemove(id)

SpecApi == Init /\ [][NextApi]_vars

\* a script that calls the exposed functions while the slot is also written
\* from outside the extension
NextSlot ==
    \/ \E item \in {NoItem, EmptyItem, GarbageItem} : SlotSet(item)
    \/ GlobalList
    \/ \E id \in Ids, name \in Names : GlobalAdd(id, name, ImageUrl, <<>>)
    \/ \E id \in Ids : GlobalRemove(id)

SpecSlot == Init /\ [][NextSlot]_vars

\* the same script and a user opening the panel, over a slot that may also
\* hold JSON that is no array
NextForeign ==
    \/ \E item \in {NoItem, GarbageItem} \cup NonArrayItems : SlotSet(item)
    \/ GlobalList
    \/ \E a \in ApiAdds : GlobalAdd(a[1], a[2], ImageUrl, <<>>)
    \/ \E id \in ApiIds : GlobalRemove(id)
    \/ ManageClick

SpecForeign == Init /\ [][NextForeign]_vars

\* the panel and a script at work while the browser's storage reaches and
\* leaves its quota
NextQuota ==
    \/ ManageClick
    \/ CloseManager
    \/ \E form \in ApiForms : PanelAdd(form)
    \/ \E form \in ApiForms : PanelAddIndex(form)
    \/ \E id \in Ids, confirmed \in BOOLEAN : PanelRemove(id, confirmed)
    \/ \E file \in ApiFiles : PanelImport(file)
    \/ \E confirmed \in BOOLEAN : PanelClearAll(confirmed)
    \/ \E a \in ApiAdds : GlobalAdd(a[1], a[2], ImageUrl, <<>>)
    \/ \E id \in ApiIds : GlobalRemove(id)
    \/ StorageFills

SpecQuota == Init /\ [][NextQuota]_vars

\* Collections a previous session left in the slot: made by add, and one
\* imported record whose skin has both an image and a native glyph
StoredCollections ==
    {<<>>,
     <<newEmoji(<<"a">>, "A", ImageUrl, <<>>)>>,
     <<newEmoji(<<"b">>, "B", DataUrl, <<"k">>),
       [id |-> <<"c", "!">>, name |-> "A", src |-> ImageUrl,
        skins |-> <<[src |-> ImageUrl, native |-> "N"]>>]>>}

\* what the text field holds when the picker is first used
TypedTexts == {<<>>, <<"x", "y">>}

\* the page loaded over a slot of a previous session, with text in the field
InitInsert ==
    /\ build \in {"part_000", "index"}
    /\ slot \in {JSONStringify(c) : c \in StoredCollections}
    /\ storageFull = FALSE
    /\ picker = [inst |-> 0, data |-> createCustomEmojiData(slot),
                 hidden |-> TRUE, inDom |-> TRUE]
    /\ windowPicker = <<>>
    /\ popper = [inst |-> 0, destroyed |-> FALSE,
                 reference |-> "addEmojiButton", popperEl |-> 0]
    /\ windowPopper = <<>>
    /\ managerShown = FALSE
    /\ list = <<>>
    /\ textarea \in {[value |-> v, selectionStart |-> 0, selectionEnd |-> 0] :
                        v \in TypedTexts}
    /\ out = Out("init", "none", <<>>, "")
    /\ page = [textarea |-> TRUE, container |-> TRUE,
               phase |-> initialize(TRUE, TRUE).phase,
               installed |-> initialize(TRUE, TRUE).installed]
    /\ pending = [adding |-> {}, importing |-> {}]
    /\ serial = slot

\* a user who picks emojis into the text field
NextInsert ==
    \/ TriggerClick
    \/ OutsideClick
    \/ EscapeKeyup
    \/ \E inputEmoji \in selectable(picker.data) : EmojiSelect(inputEmoji)
    \/ \E start, end \in 0..MaxText : UserSelects(start, end)

SpecInsert == InitInsert /\ [][NextInsert]_vars

\* the browser evaluates the module
ModuleLoads ==
    /\ page.phase = "loading"
    /\ LET r == initialize(page.textarea, page.container)
       IN /\ page' = [page EXCEPT !.phase = r.phase, !.installed = r.installed]
          /\ picker' = [picker EXCEPT !.inDom = "picker" \in r.installed]
    /\ out' = Out("load", IF page.textarea /\ page.container THEN "none" ELSE "raised",
                  <<>>, "")
    /\ UNCHANGED <<pending, serial, build, slot, storageFull, windowPicker, popper,
                   windowPopper, managerShown, list, textarea>>

\* a page, with or without the two anchors, before the module is evaluated
InitStartup ==
    /\ build \in {"part_000", "index"}
    /\ slot \in {JSONStringify(c) : c \in StoredCollections}
    /\ storageFull = FALSE
    /\ picker = [inst |-> 0, data |-> createCustomEmojiData(slot),
                 hidden |-> TRUE, inDom |-> FALSE]
    /\ windowPicker = <<>>
    /\ popper = [inst |-> 0, destroyed |-> FALSE,
                 reference |-> "addEmojiButton", popperEl |-> 0]
    /\ windowPopper = <<>>
    /\ managerShown = FALSE
    /\ list = <<>>
    /\ textarea = [value |-> <<>>, selectionStart |-> 0, selectionEnd |-> 0]
    /\ out = Out("init", "none", <<>>, "")
    /\ page \in {[textarea |-> t, container |-> c, phase |-> "loading",
                   installed |-> {}] : t, c \in BOOLEAN}
    /\ pending = [adding |-> {}, importing |-> {}]
    /\ serial = slot

\* the module is evaluated, and where that succeeded the user and a script
\* use what it installed
NextStartup ==
    \/ ModuleLoads
    \/ "containerListener" \in page.installed /\ TriggerClick
    \/ "bodyListeners" \in page.installed /\ OutsideClick
    \/ "bodyListeners" \in page.installed /\ EscapeKeyup
    \/ /\ "picker" \in page.installed
       /\ \E inputEmoji \in selectable(picker.data) : EmojiSelect(inputEmoji)
    \/ "manageButton" \in page.installed /\ ManageClick
    \/ "managerListeners" \in page.installed /\ CloseManager
    \/ /\ "namespace" \in page.installed
       /\ \E a \in ApiAdds : GlobalAdd(a[1], a[2], ImageUrl, <<>>)
    \/ "namespace" \in page.installed /\ GlobalList

SpecStartup == InitStartup /\ [][NextStartup]_vars

\* forms whose add click suspends: two ids under one name, from a file and
\* from a URL
AsyncForms ==
    {UploadForm(<<"a">>, "A", <<>>, GoodFile),
     UrlForm(<<"b">>, "A", <<>>, ImageUrl, ImageResponse)}

\* an import file of one record
AsyncFiles ==
    {[type |-> JsonType, readable |-> TRUE,
      text |-> [kind |-> "array",
                val |-> <<[id |-> <<"a">>, name |-> "B", src |-> ImageUrl]>>]]}

InitAsync == Init /\ build = "part_000"

\* a user of the panel whose adds and imports stay suspended while they, and
\* a script, go on mutating the store
NextAsync ==
    \/ ManageClick
    \/ \E form \in AsyncForms : AddStarts(form)
    \/ \E t \in pending.adding : AddCompletes(t)
    \/ \E file \in AsyncFiles : ImportStarts(file)
    \/ \E t \in pending.importing : ImportCompletes(t)
    \/ \E id \in ValidIds : PanelRemove(id, TRUE)
    \/ PanelClearAll(TRUE)
    \/ GlobalAdd(<<"b">>, "B", ImageUrl, <<>>)
    \/ GlobalRemove(<<"a">>)

SpecAsync == InitAsync /\ [][NextAsync]_vars

NextPicker ==
    \/ TriggerClick
    \/ OutsideClick
    \/ EscapeKeyup
    \/ \E inputEmoji \in selectable(picker.data) : EmojiSelect(inputEmoji)
    \/ ManageClick
    \/ CloseManager
    \/ \E form \in ApiForms : PanelAdd(form)
    \/ \E form \in ApiForms : PanelAddIndex(form)
    \/ \E id \in Ids, confirmed \in BOOLEAN : PanelRemove(id, confirmed)
    \/ \E confirmed \in BOOLEAN : PanelClearAll(confirmed)

SpecPicker == Init /\ [][NextPicker]_vars

Next ==
    \/ ManageClick
    \/ CloseManager
    \/ \E form \in Forms : PanelAdd(form)
    \/ \E form \in Forms : PanelAddIndex(form)
    \/ \E id \in Ids, confirmed \in BOOLEAN : PanelRemove(id, confirmed)
    \/ \E file \in ImportFiles \cup ApiFiles : PanelImport(file)
    \/ \E confirmed \in BOOLEAN : PanelClearAll(confirmed)
    \/ \E id \in Ids, name \in Names, keywords \in KeywordInputs :
          GlobalAdd(id, name, ImageUrl, keywords)
    \/ \E id \in Ids : GlobalRemove(id)
    \/ TriggerClick
    \/ OutsideClick
    \/ EscapeKeyup
    \/ \E inputEmoji \in selectable(picker.data) : EmojiSelect(inputEmoji)
    \/ StorageFills
    \/ \E form \in Forms : AddStarts(form)
    \/ \E t \in pending.adding : AddCompletes(t)
    \/ \E file \in ImportFiles \cup ApiFiles \cup AsyncFiles : ImportStarts(file)
    \/ \E t \in pending.importing : ImportCompletes(t)

Spec == Init /\ [][Next]_vars

-----------------------------------------------------------------------------
(* Properties.  Those about a store function are stated at every reachable *)
(* state, for every argument of the function.  In SpecPanel, SpecApi and   *)
(* SpecPicker the storage takes every write (storageFull stays FALSE).     *)

\* C1: for every store content and every accepted add(id, name, src,
\* keywords), in either file: if a record with that id is present the new
\* record takes its position, every other record keeps content and
\* position and the length is unchanged; otherwise the new record is
\* appended at the end and the length grows by exactly one.
C1_AddReplacesInPlaceOrAppends ==
    \A id \in Ids, name \in Names, url \in {ImageUrl, DataUrl},
       keywords \in KeywordInputs :
        LET before == loadCustomEmojis(slot)
            r == addCustomEmojiOf(build, slot, storageFull, id, name, url, keywords)
            after == loadCustomEmojis(r.slot)
            e == newEmoji(id, name, url, keywords)
            at == {p \in 1..Len(before) : before[p].id = id}
        IN r.ok =>
              IF at # {}
              THEN /\ Len(after) = Len(before)
                   /\ \E p \in at :
                        /\ after[p] = e
                        /\ \A j \in 1..Len(before) : j # p => after[j] = before[j]
              ELSE /\ Len(after) = Len(before) + 1
                   /\ after[Len(after)] = e
                   /\ \A j \in 1..Len(before) : after[j] = before[j]

\* C1 happens: the panel's add replaced the first of two records, and the
\* second is still in its place
C1_Witness ==
    /\ out.op = "panelAdd" /\ out.ret = "true" /\ out.branch = "replaced"
    /\ Len(loadCustomEmojis(slot)) = 2
    /\ loadCustomEmojis(slot)[1].id = <<"a">>
    /\ loadCustomEmojis(slot)[1].src = DataUrl
    /\ loadCustomEmojis(slot)[2].id = <<"b">>

\* C2: the add exposed on window.EmojiPickerExtension, in each of the two
\* files, returns false and leaves the slot as it is whenever a record with
\* another id has exactly the name passed; a record with the same id and the
\* same name is no collision.
C2_GlobalAddRejectsTakenName ==
    \A id \in Ids, name \in Names :
        LET before == loadCustomEmojis(slot)
            r == addCustomEmojiOf(build, slot, storageFull, id, name, ImageUrl, <<>>)
        IN (\E i \in 1..Len(before) : before[i].name = name /\ before[i].id # id)
              => (r.ok = FALSE /\ r.slot = slot)

\* C3 as amended: for a collection of N records and an imported array of M
\* valid records, with K the number of imported records whose id is in the
\* collection or occurs earlier in the array, importCustomEmojis reports
\* M - K added and K updated and saves a collection of N + M - K records.
C3_ImportCounts ==
    \A file \in ImportFiles :
        LET before == loadCustomEmojis(slot)
            imported == file.text.val
            r == importCustomEmojis(slot, storageFull, file)
            N == Len(before)
            M == Len(imported)
            K == Cardinality({i \in 1..M :
                    \/ \E j \in 1..N : before[j].id = imported[i].id
                    \/ \E j \in 1..(i - 1) : imported[j].id = imported[i].id})
        IN (/\ file.readable
            /\ file.text.kind = "array"
            /\ \A i \in 1..M : /\ imported[i].id # <<>>
                               /\ imported[i].name # ""
                               /\ imported[i].src # "")
              => /\ r.ok
                 /\ r.alerts = <<[text |-> "Successfully imported",
                                  added |-> M - K, updated |-> K]>>
                 /\ Len(loadCustomEmojis(r.slot)) = N + M - K

\* C3 happens: the panel imported an array of two records with one id into
\* a store that did not have it
C3_Witness ==
    /\ out.op = "panelImport" /\ out.ret = "true"
    /\ out.alerts[1].added = 1 /\ out.alerts[1].updated = 1
    /\ Len(loadCustomEmojis(slot)) = 1
    /\ list = updateCustomEmojiList(slot)

\* C3 as stated: K counts only the imported records whose id is in the
\* existing collection.
C3_AsStated ==
    \A file \in ImportFiles :
        LET before == loadCustomEmojis(slot)
            imported == file.text.val
            r == importCustomEmojis(slot, storageFull, file)
            N == Len(before)
            M == Len(imported)
            K == Cardinality({i \in 1..M :
                    \E j \in 1..N : before[j].id = imported[i].id})
        IN (/\ file.readable
            /\ file.text.kind = "array"
            /\ \A i \in 1..M : /\ imported[i].id # <<>>
                               /\ imported[i].name # ""
                               /\ imported[i].src # "")
              => /\ r.ok
                 /\ r.alerts = <<[text |-> "Successfully imported",
                                  added |-> M - K, updated |-> K]>>
                 /\ Len(loadCustomEmojis(r.slot)) = N + M - K

\* C4: an import whose payload is no array, or has an element without a
\* non-empty id, name or src anywhere in the array, returns false and leaves
\* the slot as it was, the records before the invalid one included; the
\* handler whose import returned false rebuilds no picker and renders no
\* list.
C4_ImportAllOrNothing ==
    /\ [](\A file \in ImportFiles :
            LET imported == file.text.val
                r == importCustomEmojis(slot, storageFull, file)
            IN (/\ file.readable
                /\ \/ file.text.kind = "object"
                   \/ /\ file.text.kind = "array"
                      /\ \E i \in 1..Len(imported) :
                            \/ imported[i].id = <<>>
                            \/ imported[i].name = ""
                            \/ imported[i].src = "")
                  => (r.ok = FALSE /\ r.slot = slot))
    /\ [][(out'.op = "panelImport" /\ out'.ret = "false")
            => /\ slot' = slot
               /\ windowPicker' = windowPicker
               /\ windowPopper' = windowPopper
               /\ popper' = popper
               /\ picker'.inDom = picker.inDom
               /\ picker'.data = picker.data
               /\ list' = list]_vars

\* C4 happens: an import was refused for a missing field while the store
\* held two records, and it still holds them
C4_Witness ==
    /\ out.op = "panelImport" /\ out.ret = "false"
    /\ out.alerts = <<Msg("Error importing emojis: missing required fields")>>
    /\ Len(loadCustomEmojis(slot)) = 2

\* C5: after a rebuild the instance attached to the page, which the
\* trigger-click, outside-click, escape and selection handlers operate on,
\* is the newly constructed one, its dataset is the composition made by
\* that rebuild, and the previous instance is no longer attached.  The
\* handlers read the module's `picker`; the rebuild stores the new instance
\* in window.picker.
C5_HandlersUseNewInstance ==
    windowPicker # <<>> =>
        /\ windowPicker[1].inDom
        /\ picker.inst = windowPicker[1].inst
        /\ picker.data = windowPicker[1].data

\* C6: every step that changes the store content - by the panel's add,
\* remove, import or clear-all or by the exposed add or remove - ends with a
\* picker rebuilt on the composition of the new content, and a step of the
\* panel also with the list rendered from the new content.
C6_MutationRebuilds ==
    [][loadCustomEmojis(slot') # loadCustomEmojis(slot)
        => /\ windowPicker' # <<>>
           /\ windowPicker'[1].data = createCustomEmojiData(slot')
           /\ windowPopper' # <<>>
           /\ ~windowPopper'[1].destroyed
           /\ out'.op \in {"panelAdd", "panelRemove", "panelImport", "panelClearAll"}
                => list' = updateCustomEmojiList(slot')]_vars

\* C7: the picker is hidden or visible and starts hidden; only a click on
\* the trigger button shows it, and such a click always toggles; an outside
\* click or an Escape key-up hides it and changes nothing of a hidden
\* picker; a selection ends hidden; no other event, opening the manager
\* panel included, shows it.
C7_PickerStateMachine ==
    /\ picker.hidden
    /\ windowPicker = <<>>
    /\ [][LET visible ==
                \/ picker.inDom /\ ~picker.hidden
                \/ /\ windowPicker # <<>>
                   /\ windowPicker[1].inDom /\ ~windowPicker[1].hidden
              visibleNext ==
                \/ picker'.inDom /\ ~picker'.hidden
                \/ /\ windowPicker' # <<>>
                   /\ windowPicker'[1].inDom /\ ~windowPicker'[1].hidden
          IN /\ (~visible /\ visibleNext) => TriggerClick
             /\ TriggerClick => (visibleNext <=> ~visible)
             /\ (OutsideClick \/ EscapeKeyup)
                  => /\ ~visibleNext
                     /\ ~visible =>
                          UNCHANGED <<picker, windowPicker, popper, windowPopper>>
             /\ out'.op = "select" => (visible /\ ~visibleNext)
             /\ ManageClick => (visibleNext <=> visible)]_vars

\* C7 happens: the picker is shown again after a rebuild, with the manager
\* panel open
C7_Witness ==
    /\ picker.inDom /\ ~picker.hidden
    /\ windowPicker # <<>>
    /\ managerShown
    /\ out.op = "trigger"

\* C8: no two records of the stored collection have the same id, whatever
\* sequence of panel adds, exposed adds, removes, imports (of arrays that
\* repeat an id too) and clear-alls produced it.
C8_IdsUnique ==
    LET customEmojis == loadCustomEmojis(slot)
    IN \A i, j \in 1..Len(customEmojis) :
          customEmojis[i].id = customEmojis[j].id => i = j

\* C8 happens: an import whose array has the same id twice ran on a store
\* of two records that had the id
C8_Witness ==
    /\ out.op = "panelImport" /\ out.ret = "true"
    /\ out.alerts[1].added = 0 /\ out.alerts[1].updated = 2
    /\ Len(loadCustomEmojis(slot)) = 2

\* C9: every stored record's id is non-empty and made of letters, digits,
\* underscore and hyphen only, whatever sequence of panel adds, exposed
\* adds, removes, imports and clear-alls produced the store.
C9_IdsWellFormed ==
    LET customEmojis == loadCustomEmojis(slot)
    IN \A i \in 1..Len(customEmojis) :
          /\ Len(customEmojis[i].id) > 0
          /\ \A k \in 1..Len(customEmojis[i].id) : customEmojis[i].id[k] \in WordChars

\* C10: every stored record has a non-empty keywords sequence whose first
\* element is the record's name, whatever sequence of adds, removes,
\* imports and clear-alls produced the store.
C10_KeywordsStartWithName ==
    LET customEmojis == loadCustomEmojis(slot)
    IN \A i \in 1..Len(customEmojis) :
          /\ "keywords" \in DOMAIN customEmojis[i]
          /\ Len(customEmojis[i].keywords) > 0
          /\ customEmojis[i].keywords[1] = customEmojis[i].name

\* C11: loadCustomEmojis never throws to its caller; it returns the empty
\* collection when the slot is absent or holds the empty string, and when
\* the slot's text cannot be decoded as JSON; the slot is left as it is.
C11_LoadNeverRaises ==
    /\ [](LET r == loadCustomEmojisCall(build, slot)
          IN /\ ~r.threw
             /\ r.slot = slot
             /\ slot.kind \in {"null", "empty", "garbage"} => r.value = <<>>)
    /\ [][GlobalList => (out'.ret = "array" /\ slot' = slot)]_vars

\* C11 happens: the exposed load ran on a slot that cannot be decoded, and
\* the slot still holds that text
C11_Witness ==
    /\ out.op = "globalList" /\ out.ret = "array"
    /\ slot = GarbageItem

\* C12: when the write of saveCustomEmojis (part_000) is refused, the
\* function alerts the user, throws nothing to its caller and leaves the
\* slot as it was; so no handler step taken while the storage refuses
\* writes changes the stored collection, and every such step of part_000
\* whose store function returned true shows the warning.
C12_SaveFailureKeepsPriorState ==
    /\ [](\A emojis \in {<<>>, loadCustomEmojis(slot),
                         Append(loadCustomEmojis(slot),
                                newEmoji(<<"b">>, "A", ImageUrl, <<>>))} :
            LET r == saveCustomEmojis("part_000", slot, TRUE, emojis)
            IN /\ ~r.threw
               /\ r.alerts = <<Msg("Failed to save custom emojis")>>
               /\ r.slot = slot)
    /\ [][(storageFull /\ storageFull')
            => /\ slot' = slot
               /\ (build = "part_000" /\ out' # out /\ out'.ret = "true")
                    => \E i \in 1..Len(out'.alerts) :
                          out'.alerts[i] = Msg("Failed to save custom emojis")]_vars

\* C12 happens: the panel's clear-all ran while the storage refused the
\* write, the warning was shown and the two records are still stored
C12_Witness ==
    /\ storageFull
    /\ out.op = "panelClearAll"
    /\ Len(out.alerts) = 2
    /\ out.alerts[1] = Msg("Failed to save custom emojis")
    /\ Len(loadCustomEmojis(slot)) = 2

\* C13: on a slot that takes the write, remove(id) returns true and leaves a
\* collection without a record of that id in which all other records keep
\* their content and relative order; for an id that is not present the
\* collection is unchanged and the call still returns true.
C13_RemoveFilters ==
    \A id \in Ids :
        LET before == loadCustomEmojis(slot)
            r == removeCustomEmoji(build, slot, FALSE, id)
            after == loadCustomEmojis(r.slot)
            others == {p \in 1..Len(before) : before[p].id # id}
        IN /\ r.ok
           /\ \A k \in 1..Len(after) : after[k].id # id
           /\ Len(after) = Cardinality(others)
           /\ \A p \in others :
                 after[Cardinality({q \in others : q < p}) + 1] = before[p]
           /\ others = 1..Len(before) => after = before

\* C13 happens: the panel removed the first of two records and the second
\* is what is stored
C13_Witness ==
    /\ out.op = "panelRemove" /\ out.ret = "true"
    /\ build = "part_000"
    /\ Len(loadCustomEmojis(slot)) = 1
    /\ loadCustomEmojis(slot)[1].id = <<"b">>
    /\ loadCustomEmojis(slot)[1].name = "B"

\* C14: compose of an empty collection returns the base dataset itself; of
\* a non-empty one it returns the base categories followed by one category
\* "custom" listing the custom ids in collection order, and a table that
\* maps each custom id to its custom record (also when a base emoji has
\* that id) and every other id as the base does; the base dataset is left
\* as it was, so a second compose gives the same result, and the picker a
\* rebuild constructs never has more than one "custom" category.
C14_Compose ==
    LET customEmojis == loadCustomEmojis(slot)
        first == createCustomEmojiDataCall(BaseData, slot)
        second == createCustomEmojiDataCall(first.data, slot)
        customOf(d) == {c \in 1..Len(d.categories) :
                           d.categories[c].id = CUSTOM_EMOJI_CATEGORY}
        n == Len(BaseData.categories)
    IN /\ first.data = BaseData
       /\ second.value = first.value
       /\ customEmojis = <<>> => first.value = BaseData
       /\ customEmojis # <<>> =>
            /\ Len(first.value.categories) = n + 1
            /\ \A c \in 1..n : first.value.categories[c] = BaseData.categories[c]
            /\ customOf(first.value) = {n + 1}
            /\ first.value.categories[n + 1].emojis =
                  [i \in 1..Len(customEmojis) |-> customEmojis[i].id]
            /\ \A i \in 1..Len(customEmojis) :
                  first.value.emojis[customEmojis[i].id] = customEmojis[i]
            /\ \A k \in DOMAIN BaseData.emojis :
                  (\A i \in 1..Len(customEmojis) : customEmojis[i].id # k)
                     => first.value.emojis[k] = BaseData.emojis[k]
            /\ DOMAIN first.value.emojis =
                  (DOMAIN BaseData.emojis)
                     \cup {customEmojis[i].id : i \in 1..Len(customEmojis)}
       /\ windowPicker # <<>> => Cardinality(customOf(windowPicker[1].data)) <= 1

\* C14 happens: a second rebuild composed a store of two records, one of
\* them with the id of a base emoji
C14_Witness ==
    /\ windowPicker # <<>>
    /\ windowPicker[1].inst = 2
    /\ Len(windowPicker[1].data.categories) = 2
    /\ windowPicker[1].data.categories[2].emojis = << <<"b">>, <<"a">> >>
    /\ windowPicker[1].data.emojis[<<"a">>].name = "A"

\* C15: for every descriptor the picker can hand over, insertEmoji inserts
\* the image reference ![id](src) exactly when the descriptor has a
\* non-empty src and no native glyph, and the native glyph itself in every
\* other case, also when it has both; a selection puts exactly that text
\* into the field.
C15_InsertedText ==
    /\ [](\A d \in selectable(picker.data)
                   \cup [id : Ids, native : {"", "G"}, src : {"", ImageUrl}] :
            LET reference == <<"![">> \o d.id \o <<"](", d.src, ")">>
            IN /\ (d.src # "" /\ d.native = "") => emojiText(d) = reference
               /\ ~(d.src # "" /\ d.native = "") => emojiText(d) = <<d.native>>)
    /\ [][\A d \in selectable(picker.data) :
            EmojiSelect(d) =>
               LET text == IF d.src # "" /\ d.native = ""
                           THEN <<"![">> \o d.id \o <<"](", d.src, ")">>
                           ELSE <<d.native>>
                   v == textarea.value
               IN \E i \in 0..Len(v) : \E j \in i..Len(v) :
                     textarea'.value =
                        SubSeq(v, 1, i) \o text \o SubSeq(v, j + 1, Len(v))]_vars

\* C15 happens: the field holds the native glyph of a selected custom emoji
\* that has both a src and a native glyph, after the reference of one that
\* has only a src
C15_Witness ==
    /\ out.op = "select"
    /\ textarea.value = <<"![", "b", "](", DataUrl, ")", "N">>

\* C16: for every field content, selection range and text, typeInTextarea
\* leaves the content before the range, the text and the content after the
\* range, with the caret collapsed right after the text; on a field without
\* a selection it appends the text to the content.
C16_InsertAtCaret ==
    \A newText \in {<<>>, <<"G">>, <<"![", "a", "](", ImageUrl, ")">>} :
      \A start \in {-1} \cup 0..Len(textarea.value) :
        \A end \in {-1} \cup (IF start = -1 THEN {} ELSE start..Len(textarea.value)) :
          LET el == [textarea EXCEPT !.selectionStart = start, !.selectionEnd = end]
              r == typeInTextarea(newText, el)
              n == Len(el.value)
              m == Len(newText)
          IN IF start = -1 \/ end = -1
             THEN r.value = el.value \o newText
             ELSE /\ Len(r.value) = start + m + (n - end)
                  /\ \A k \in 1..start : r.value[k] = el.value[k]
                  /\ \A k \in 1..m : r.value[start + k] = newText[k]
                  /\ \A k \in 1..(n - end) : r.value[start + m + k] = el.value[end + k]
                  /\ r.selectionStart = start + m
                  /\ r.selectionEnd = start + m

\* C16 happens: a selection replaced the second of two typed characters,
\* and the caret is after the glyph
C16_Witness ==
    /\ out.op = "select"
    /\ textarea.value = <<"x", "G">>
    /\ textarea.selectionStart = 2 /\ textarea.selectionEnd = 2

\* C17: a click on the manage button and a click on the panel's close
\* button leave the picker hidden or visible as it was, and a trigger
\* click, outside click, Escape key-up or emoji selection leaves the panel
\* shown or not as it was.
C17_PanelAndPickerIndependent ==
    [][/\ (ManageClick \/ CloseManager)
            => (picker'.hidden = picker.hidden /\ picker'.inDom = picker.inDom)
       /\ (TriggerClick \/ OutsideClick \/ EscapeKeyup \/ out'.op = "select")
            => managerShown' = managerShown]_vars

\* C18: every add attempt of the panel (part_000) that is rejected - by the
\* checks of the form, of the file, of the url and its response, or by the
\* duplicate-name test - shows at least one message and leaves the slot as
\* it was.  (The handler clears the form fields only in its success
\* branch.)
C18_RejectedAddIsAnnounced ==
    [][(build = "part_000" /\ out'.op = "panelAdd" /\ out'.ret # "true")
          => (Len(out'.alerts) >= 1 /\ slot' = slot)]_vars

\* C19: when the text field or the toolbar container is missing, the
\* evaluation of the module fails and has put nothing into the page: no
\* panel, picker, trigger or manage button, no listener, no namespace.
C19_FailedStartupInstallsNothing ==
    (page.textarea = FALSE \/ page.container = FALSE) /\ page.phase # "loading"
        => (page.phase = "failed" /\ page.installed = {})

\* C20: however the suspended add and import handlers of the panel
\* interleave with each other and with remove, clear-all and the global add
\* and remove, every mutation loads and saves with no other save in
\* between, so none is lost: the slot always holds what the saved mutations
\* give when applied one after another in the order of their saves.
C20_SavesAreSerial == slot = serial

\* an add was saved while an import, suspended since before the last change
\* of the slot, still waits for its file
C20_Witness ==
    /\ out.op = "panelAdd" /\ out.ret = "true"
    /\ \E t \in pending.importing : t.at # slot
    /\ Len(loadCustomEmojis(slot)) = 2
    /\ slot = serial

\* C21: in src/unnamed/part_000, from the empty store, add, remove, import
\* and clear-all never leave two records of different ids under one name.
C21_NamesUnique ==
    build = "part_000" =>
        LET emojis == loadCustomEmojis(slot)
        IN \A i, j \in 1..Len(emojis) :
              emojis[i].id # emojis[j].id => emojis[i].name # emojis[j].name

\* C22: a handler that runs while the storage refuses the write gets false
\* from addCustomEmoji and removeCustomEmoji, so that the panel shows no
\* "added successfully" or "removed successfully", the import reports no
\* counts, and the functions of window.EmojiPickerExtension do not return
\* true, for a mutation that was not persisted.
C22_TrueOnlyIfPersisted ==
    [][(storageFull /\ storageFull'
          /\ out'.op \in {"panelAdd", "panelRemove", "panelImport",
                          "globalAdd", "globalRemove"})
         => /\ out'.ret # "true"
            /\ \A i \in 1..Len(out'.alerts) :
                  out'.alerts[i].text \notin {"added successfully",
                                              "removed successfully",
                                              "Successfully imported"}]_vars

\* C23: whatever text the slot holds, JSON that is no array included, load
\* gives a sequence, and add, remove and the rendering of the panel's list
\* do not raise.
C23_LoadGivesSequence ==
    [][/\ GlobalList => out'.ret = "array"
       /\ (GlobalList \/ ManageClick
              \/ \E a \in ApiAdds : GlobalAdd(a[1], a[2], ImageUrl, <<>>)
              \/ \E id \in ApiIds : GlobalRemove(id))
            => out'.ret # "raised"]_vars

\* C24: after any number of rebuilds the positioner the trigger-click,
\* outside-click, escape and selection handlers call update on (the
\* module's `popper`) is not destroyed and anchors the trigger button to
\* the picker attached to the page; no rebuild destroys an instance that is
\* destroyed already, and a rebuild replaces picker and positioner together.
C24_PositionerLive ==
    /\ [](/\ ~popper.destroyed
          /\ popper.reference = "addEmojiButton"
          /\ popper.popperEl = picker.inst
          /\ picker.inDom)
    /\ [][/\ (windowPopper' # windowPopper) => ~popper.destroyed
          /\ (windowPopper' # windowPopper) = (windowPicker' # windowPicker)]_vars


====
